---- MODULE Spec2Model ----
(***************************************************************************)
(* MCS queue lock of src/src/main.rs: MCSLock (last, data), MCSNode (next, *)
(* locked), MCSNode::lock, MCSLockGuard::drop / deref / deref_mut and the  *)
(* worker loop of main.  Every atomic operation of lock() and drop() is    *)
(* one step; the increment `*data += 1` is a read step and a write step.   *)
(***************************************************************************)
EXTENDS Naturals, Integers, Sequences, FiniteSets, TLC

\* Bounds (main.rs runs NUM_THREADS = 4 workers for NUM_LOOP = 1000000 rounds)
NumThreads == 3
NumLoop == 2

Null == 0
Threads == 1..NumThreads
\* One more locker besides the workers' lockers: the locker main builds at
\* line 134, or a second locker built by a worker that already holds a guard.
Extra == NumThreads + 1
Nodes == Threads \cup {Extra}

VARIABLES
    last,     \* MCSLock.last: tail of the queue, Null or a node
    data,     \* MCSLock.data: the protected value
    next,     \* MCSNode.next, per node
    locked,   \* MCSNode.locked, per node
    pc,       \* per node: the position of its owner inside lock()/drop()
    prev,     \* per node: local `prev` of lock()
    succ,     \* per node: local `next` of drop() (line 85)
    tmp,      \* per node: value read through the guard
    iter,     \* per node: number of lock() calls started on it
    reent,    \* the worker that took the extra locker while holding, or Null
    queue     \* history: nodes swapped into last and not yet released, in swap order

vars == <<last, data, next, locked, pc, prev, succ, tmp, iter, reent, queue>>

Remove(q, n) == SelectSeq(q, LAMBDA x : x # n)

\* The owner of node n is inside a nested lock()/guard on the extra locker,
\* so it cannot continue with n until that call and guard are finished.
Blocked(n) == n = reent /\ pc[Extra] # "idle"

Init ==
    /\ last = Null
    /\ data = 0
    /\ next = [n \in Nodes |-> Null]
    /\ locked = [n \in Nodes |-> FALSE]
    /\ pc = [n \in Nodes |-> "idle"]
    /\ prev = [n \in Nodes |-> Null]
    /\ succ = [n \in Nodes |-> Null]
    /\ tmp = [n \in Nodes |-> 0]
    /\ iter = [n \in Nodes |-> 0]
    /\ reent = Null
    /\ queue = <<>>

-----------------------------------------------------------------------------
\* MCSNode::lock

\* lock() that returns a guard whatever the swap returned
LockSwap_AlwaysHeld(n) ==
    /\ pc[n] = "swap" /\ ~Blocked(n)
    /\ prev' = [prev EXCEPT ![n] = Null]
    /\ last' = n
    /\ queue' = Append(queue, n)
    /\ pc' = [pc EXCEPT ![n] = "held"]
    /\ UNCHANGED <<data, next, locked, succ, tmp, iter, reent>>

\* lock() that sets its flag together with the swap, before testing `prev`
LockSwap_SetLocked(n) ==
    /\ pc[n] = "swap" /\ ~Blocked(n)
    /\ prev' = [prev EXCEPT ![n] = last]
    /\ last' = n
    /\ locked' = [locked EXCEPT ![n] = TRUE]
    /\ queue' = Append(queue, n)
    /\ pc' = [pc EXCEPT ![n] = IF last # Null THEN "store_locked" ELSE "held"]
    /\ UNCHANGED <<data, next, succ, tmp, iter, reent>>

\* line 42 and the test of line 46
LockSwap(n) ==
    /\ pc[n] = "swap" /\ ~Blocked(n)
    /\ prev' = [prev EXCEPT ![n] = last]
    /\ last' = n
    /\ queue' = Append(queue, n)
    /\ pc' = [pc EXCEPT ![n] = IF last # Null THEN "store_locked" ELSE "held"]
    /\ UNCHANGED <<data, next, locked, succ, tmp, iter, reent>>

\* line 48 storing false
LockStoreLocked_False(n) ==
    /\ pc[n] = "store_locked" /\ ~Blocked(n)
    /\ locked' = [locked EXCEPT ![n] = FALSE]
    /\ pc' = [pc EXCEPT ![n] = "store_next"]
    /\ UNCHANGED <<last, data, next, prev, succ, tmp, iter, reent, queue>>

\* the publish of line 52 made first, in place of the store of line 48
LockStoreLocked_PublishFirst(n) ==
    /\ pc[n] = "store_locked" /\ ~Blocked(n)
    /\ next' = [next EXCEPT ![prev[n]] = n]
    /\ pc' = [pc EXCEPT ![n] = "store_next"]
    /\ UNCHANGED <<last, data, locked, prev, succ, tmp, iter, reent, queue>>

\* line 48
LockStoreLocked(n) ==
    /\ pc[n] = "store_locked" /\ ~Blocked(n)
    /\ locked' = [locked EXCEPT ![n] = TRUE]
    /\ pc' = [pc EXCEPT ![n] = "store_next"]
    /\ UNCHANGED <<last, data, next, prev, succ, tmp, iter, reent, queue>>

\* line 52 storing into the own `next` instead of `prev.next`
LockStoreNext_Own(n) ==
    /\ pc[n] = "store_next" /\ ~Blocked(n)
    /\ next' = [next EXCEPT ![n] = n]
    /\ pc' = [pc EXCEPT ![n] = "spin"]
    /\ UNCHANGED <<last, data, locked, prev, succ, tmp, iter, reent, queue>>

\* line 52 storing into `next` of the current tail instead of `prev`
LockStoreNext_Last(n) ==
    /\ pc[n] = "store_next" /\ ~Blocked(n)
    /\ next' = [next EXCEPT ![last] = n]
    /\ pc' = [pc EXCEPT ![n] = "spin"]
    /\ UNCHANGED <<last, data, locked, prev, succ, tmp, iter, reent, queue>>

\* lines 51-52
LockStoreNext(n) ==
    /\ pc[n] = "store_next" /\ ~Blocked(n)
    /\ next' = [next EXCEPT ![prev[n]] = n]
    /\ pc' = [pc EXCEPT ![n] = "spin"]
    /\ UNCHANGED <<last, data, locked, prev, succ, tmp, iter, reent, queue>>

\* line 55 without the wait
LockSpin_NoWait(n) ==
    /\ pc[n] = "spin" /\ ~Blocked(n)
    /\ pc' = [pc EXCEPT ![n] = "held"]
    /\ prev' = [prev EXCEPT ![n] = Null]
    /\ UNCHANGED <<last, data, next, locked, succ, tmp, iter, reent, queue>>

\* line 55 (the iteration that leaves the loop) and line 58
LockSpin(n) ==
    /\ pc[n] = "spin" /\ ~Blocked(n)
    /\ ~locked[n]
    /\ pc' = [pc EXCEPT ![n] = "held"]
    /\ prev' = [prev EXCEPT ![n] = Null]
    /\ UNCHANGED <<last, data, next, locked, succ, tmp, iter, reent, queue>>

-----------------------------------------------------------------------------
\* Use of the guard

\* line 124, the read of `*data += 1` (deref_mut, lines 104-106)
Read(n) ==
    /\ pc[n] = "held" /\ ~Blocked(n)
    /\ tmp' = [tmp EXCEPT ![n] = data]
    /\ pc' = [pc EXCEPT ![n] = "write"]
    /\ UNCHANGED <<last, data, next, locked, prev, succ, iter, reent, queue>>

\* line 124, the write of `*data += 1`; the guard goes out of scope at line 125
Write(n) ==
    /\ pc[n] = "write" /\ ~Blocked(n)
    /\ data' = tmp[n] + 1
    /\ tmp' = [tmp EXCEPT ![n] = 0]
    /\ pc' = [pc EXCEPT ![n] = "drop_load"]
    /\ UNCHANGED <<last, next, locked, prev, succ, iter, reent, queue>>

\* line 137, `*locker.lock()`: read through deref (lines 97-99), then the
\* temporary guard is dropped
Deref(n) ==
    /\ pc[n] = "held" /\ ~Blocked(n)
    /\ tmp' = [tmp EXCEPT ![n] = data]
    /\ pc' = [pc EXCEPT ![n] = "drop_load"]
    /\ UNCHANGED <<last, data, next, locked, prev, succ, iter, reent, queue>>

-----------------------------------------------------------------------------
\* MCSLockGuard::drop

\* line 69
DropLoad(n) ==
    /\ pc[n] = "drop_load" /\ ~Blocked(n)
    /\ pc' = [pc EXCEPT ![n] = IF next[n] = Null THEN "drop_cas" ELSE "drop_spin"]
    /\ UNCHANGED <<last, data, next, locked, prev, succ, tmp, iter, reent, queue>>

\* drop() that returns when the compare-and-swap fails
DropCas_GiveUp(n) ==
    /\ pc[n] = "drop_cas" /\ ~Blocked(n)
    /\ IF last = n
         THEN /\ last' = Null
              /\ queue' = Remove(queue, n)
         ELSE UNCHANGED <<last, queue>>
    /\ pc' = [pc EXCEPT ![n] = "idle"]
    /\ UNCHANGED <<data, next, locked, prev, succ, tmp, iter, reent>>

\* drop() that compares but does not exchange
DropCas_NoClear(n) ==
    /\ pc[n] = "drop_cas" /\ ~Blocked(n)
    /\ IF last = n
         THEN /\ queue' = Remove(queue, n)
              /\ pc' = [pc EXCEPT ![n] = "idle"]
         ELSE /\ pc' = [pc EXCEPT ![n] = "drop_spin"]
              /\ UNCHANGED queue
    /\ UNCHANGED <<last, data, next, locked, prev, succ, tmp, iter, reent>>

\* drop() that stores null into `last` without comparing
DropCas_Store(n) ==
    /\ pc[n] = "drop_cas" /\ ~Blocked(n)
    /\ last' = Null
    /\ queue' = Remove(queue, n)
    /\ pc' = [pc EXCEPT ![n] = "idle"]
    /\ UNCHANGED <<data, next, locked, prev, succ, tmp, iter, reent>>

\* a compare-and-swap that may fail although `last` is the own node
\* (compare_exchange_weak)
DropCas_Weak(n) ==
    /\ pc[n] = "drop_cas" /\ ~Blocked(n)
    /\ \/ /\ last = n
          /\ last' = Null
          /\ queue' = Remove(queue, n)
          /\ pc' = [pc EXCEPT ![n] = "idle"]
       \/ /\ pc' = [pc EXCEPT ![n] = "drop_spin"]
          /\ UNCHANGED <<last, queue>>
    /\ UNCHANGED <<data, next, locked, prev, succ, tmp, iter, reent>>

\* lines 70-78
DropCas(n) ==
    /\ pc[n] = "drop_cas" /\ ~Blocked(n)
    /\ IF last = n
         THEN /\ last' = Null
              /\ queue' = Remove(queue, n)
              /\ pc' = [pc EXCEPT ![n] = "idle"]
         ELSE /\ pc' = [pc EXCEPT ![n] = "drop_spin"]
              /\ UNCHANGED <<last, queue>>
    /\ UNCHANGED <<data, next, locked, prev, succ, tmp, iter, reent>>

\* a spin on `next` that gives up although `next` is still null
DropSpin_Timeout(n) ==
    /\ pc[n] = "drop_spin" /\ ~Blocked(n)
    /\ pc' = [pc EXCEPT ![n] = "drop_hload"]
    /\ UNCHANGED <<last, data, next, locked, prev, succ, tmp, iter, reent, queue>>

\* line 82 (the iteration that leaves the loop)
DropSpin(n) ==
    /\ pc[n] = "drop_spin" /\ ~Blocked(n)
    /\ next[n] # Null
    /\ pc' = [pc EXCEPT ![n] = "drop_hload"]
    /\ UNCHANGED <<last, data, next, locked, prev, succ, tmp, iter, reent, queue>>

\* line 85 loading the tail of the queue instead of `next`
DropLoadNext_Tail(n) ==
    /\ pc[n] = "drop_hload" /\ ~Blocked(n)
    /\ succ' = [succ EXCEPT ![n] = last]
    /\ pc' = [pc EXCEPT ![n] = "drop_hstore"]
    /\ UNCHANGED <<last, data, next, locked, prev, tmp, iter, reent, queue>>

\* line 85
DropLoadNext(n) ==
    /\ pc[n] = "drop_hload" /\ ~Blocked(n)
    /\ succ' = [succ EXCEPT ![n] = next[n]]
    /\ pc' = [pc EXCEPT ![n] = "drop_hstore"]
    /\ UNCHANGED <<last, data, next, locked, prev, tmp, iter, reent, queue>>

\* line 86 left out
DropHandoff_NoStore(n) ==
    /\ pc[n] = "drop_hstore" /\ ~Blocked(n)
    /\ queue' = Remove(queue, n)
    /\ pc' = [pc EXCEPT ![n] = "drop_reset"]
    /\ UNCHANGED <<last, data, next, locked, prev, succ, tmp, iter, reent>>

\* line 86 clearing the flag of the tail node
DropHandoff_Tail(n) ==
    /\ pc[n] = "drop_hstore" /\ ~Blocked(n)
    /\ locked' = [locked EXCEPT ![last] = FALSE]
    /\ queue' = Remove(queue, n)
    /\ pc' = [pc EXCEPT ![n] = "drop_reset"]
    /\ UNCHANGED <<last, data, next, prev, succ, tmp, iter, reent>>

\* a handoff that also clears the tail
DropHandoff_ClearTail(n) ==
    /\ pc[n] = "drop_hstore" /\ ~Blocked(n)
    /\ locked' = [locked EXCEPT ![succ[n]] = FALSE]
    /\ last' = IF last = succ[n] THEN Null ELSE last
    /\ queue' = Remove(queue, n)
    /\ pc' = [pc EXCEPT ![n] = "drop_reset"]
    /\ UNCHANGED <<data, next, prev, succ, tmp, iter, reent>>

\* line 86
DropHandoff(n) ==
    /\ pc[n] = "drop_hstore" /\ ~Blocked(n)
    /\ locked' = [locked EXCEPT ![succ[n]] = FALSE]
    /\ queue' = Remove(queue, n)
    /\ pc' = [pc EXCEPT ![n] = "drop_reset"]
    /\ UNCHANGED <<last, data, next, prev, succ, tmp, iter, reent>>

\* line 89 left out
DropReset_NoStore(n) ==
    /\ pc[n] = "drop_reset" /\ ~Blocked(n)
    /\ succ' = [succ EXCEPT ![n] = Null]
    /\ pc' = [pc EXCEPT ![n] = "idle"]
    /\ UNCHANGED <<last, data, next, locked, prev, tmp, iter, reent, queue>>

\* line 89
DropReset(n) ==
    /\ pc[n] = "drop_reset" /\ ~Blocked(n)
    /\ next' = [next EXCEPT ![n] = Null]
    /\ succ' = [succ EXCEPT ![n] = Null]
    /\ pc' = [pc EXCEPT ![n] = "idle"]
    /\ UNCHANGED <<last, data, locked, prev, tmp, iter, reent, queue>>

-----------------------------------------------------------------------------
\* Callers

\* lines 121-123: a worker starts the next round of its loop
LoopIter(t) ==
    /\ pc[t] = "idle" /\ iter[t] < NumLoop
    /\ iter' = [iter EXCEPT ![t] = @ + 1]
    /\ pc' = [pc EXCEPT ![t] = "swap"]
    /\ UNCHANGED <<last, data, next, locked, prev, succ, tmp, reent, queue>>

AllJoined == \A t \in Threads : pc[t] = "idle" /\ iter[t] = NumLoop

\* lines 130-137: after the joins main builds a locker and locks it once
MainLock ==
    /\ AllJoined
    /\ pc[Extra] = "idle" /\ iter[Extra] = 0
    /\ iter' = [iter EXCEPT ![Extra] = 1]
    /\ pc' = [pc EXCEPT ![Extra] = "swap"]
    /\ UNCHANGED <<last, data, next, locked, prev, succ, tmp, reent, queue>>

\* a caller that locks in a loop without bound
LoopForever(t) ==
    /\ pc[t] = "idle"
    /\ pc' = [pc EXCEPT ![t] = "swap"]
    /\ UNCHANGED <<last, data, next, locked, prev, succ, tmp, iter, reent, queue>>

\* a worker that holds a guard builds a second locker (get_locker, lines
\* 26-32) and calls lock() on it
Reenter(t) ==
    /\ pc[t] = "held"
    /\ pc[Extra] = "idle"
    /\ reent' = t
    /\ pc' = [pc EXCEPT ![Extra] = "swap"]
    /\ UNCHANGED <<last, data, next, locked, prev, succ, tmp, iter, queue>>

LockStep(n) == LockSwap(n) \/ LockStoreLocked(n) \/ LockStoreNext(n) \/ LockSpin(n)

DropStep(n) ==
    \/ DropLoad(n) \/ DropCas(n) \/ DropSpin(n)
    \/ DropLoadNext(n) \/ DropHandoff(n) \/ DropReset(n)

\* main.rs as written
Next ==
    \/ \E t \in Threads : LoopIter(t) \/ Read(t) \/ Write(t)
    \/ MainLock
    \/ Deref(Extra)
    \/ \E n \in Nodes : LockStep(n) \/ DropStep(n)

Spec == Init /\ [][Next]_vars

\* callers that lock, read and release for ever, every thread scheduled fairly
LiveStep(t) == LoopForever(t) \/ LockStep(t) \/ Deref(t) \/ DropStep(t)

NextLive == \E t \in Threads : LiveStep(t)

SpecLive == Init /\ [][NextLive]_vars /\ \A t \in Threads : WF_vars(LiveStep(t))

\* callers that lock, read and release in a loop, one of which may lock a
\* second locker while holding
NextReentrant ==
    \/ \E t \in Threads : LoopForever(t) \/ Reenter(t)
    \/ \E n \in Nodes : LockStep(n) \/ Deref(n) \/ DropStep(n)

SpecReentrant == Init /\ [][NextReentrant]_vars

\* A thread that is killed between its swap (line 42) and its store into
\* the predecessor's `next` (line 52): it takes no further step.
Halt(t) ==
    /\ pc[t] \in {"store_locked", "store_next"}
    /\ \A u \in Nodes : pc[u] # "halted"
    /\ pc' = [pc EXCEPT ![t] = "halted"]
    /\ UNCHANGED <<last, data, next, locked, prev, succ, tmp, iter, reent, queue>>

\* callers that lock, read and release in a loop, one of which may be
\* killed inside lock()
NextHalt == \E t \in Threads : LiveStep(t) \/ Halt(t)

SpecHalt == Init /\ [][NextHalt]_vars

-----------------------------------------------------------------------------
\* Positions of a node's owner
InLock == {"store_locked", "store_next", "spin"}
Holding == {"held", "write"}
InDrop == {"drop_load", "drop_cas", "drop_spin", "drop_hload", "drop_hstore"}

InQueue(n) == \E i \in 1..Len(queue) : queue[i] = n
Pos(n) == CHOOSE i \in 1..Len(queue) : queue[i] = n
Before(m, n) == InQueue(m) /\ InQueue(n) /\ Pos(m) < Pos(n)

\* C1: mutual exclusion: at most one thread is between the return of lock()
\* and the start of its guard's drop(), so at most one guard is live.
C1_MutualExclusion ==
    Cardinality({n \in Nodes : pc[n] \in Holding}) <= 1

\* a guard is live while a second acquisition, queued behind it, spins
C1_Witness ==
    \E a, b \in Threads : pc[a] \in Holding /\ pc[b] = "spin" /\ locked[b]

\* C2: no lost updates: once every worker has finished its NumLoop rounds
\* of lock / read / write counter+1 / drop, the counter is
\* NumThreads * NumLoop, and that is the value main reads under the lock.
C2_NoLostUpdates ==
    /\ AllJoined => data = NumThreads * NumLoop
    /\ (iter[Extra] = 1 /\ pc[Extra] \in InDrop \cup {"idle"})
          => tmp[Extra] = NumThreads * NumLoop

\* main has locked, read the counter and released
C2_Witness ==
    AllJoined /\ iter[Extra] = 1 /\ pc[Extra] = "idle" /\ data = NumThreads * NumLoop

\* C3: FIFO: whenever a lock() returns, no acquisition whose swap on `last`
\* came earlier is still inside lock(): critical sections are entered in
\* the order of the swaps.
C3_FifoEntry ==
    [][\A n \in Nodes :
          (pc[n] # "held" /\ pc'[n] = "held") =>
              /\ \E i \in 1..Len(queue') : queue'[i] = n
              /\ \A i \in 1..Len(queue') : \A j \in 1..Len(queue') :
                    (i < j /\ queue'[j] = n) => pc'[queue'[i]] \notin InLock
      ]_vars

\* a waiter has been handed the lock and is about to return from lock()
\* while a later waiter spins behind it
C3_Witness ==
    /\ Len(queue) >= 2
    /\ pc[queue[1]] = "spin" /\ ~locked[queue[1]]
    /\ pc[queue[2]] = "spin" /\ locked[queue[2]]

\* C4: starvation freedom: with every thread scheduled fairly and every
\* guard dropped, each call of lock() returns, although the other threads
\* go on locking for ever.
C4_StarvationFree ==
    \A t \in Threads : (pc[t] \in InLock \cup {"swap"}) ~> (pc[t] = "held")

\* a thread waits at the end of a queue of all the threads
C4_Witness ==
    /\ Len(queue) = NumThreads
    /\ pc[queue[NumThreads]] = "spin" /\ locked[queue[NumThreads]]

\* C5: two-step race: the successor s has swapped itself into `last` but
\* has not stored itself into the holder h's `next` while h's drop() runs.
TwoStepRace(h, s) ==
    /\ pc[h] \in {"drop_load", "drop_cas"}
    /\ pc[s] \in {"store_locked", "store_next"}
    /\ prev[s] = h

\* the drop() of h races with some successor; the lock() of s races with
\* the drop() of its predecessor
RaceOfHolder(h) == \E s \in Threads \ {h} : TwoStepRace(h, s)
RaceOfSuccessor(s) == prev[s] \in Threads \ {s} /\ TwoStepRace(prev[s], s)

\* Then h's compare-and-swap fails, h comes to clear the `locked` flag of
\* that successor (the node that spins with h as its `prev`), lock() of the
\* successor returns and drop() of h finishes.
C5_TwoStepRace ==
    /\ [](\A h \in Threads : \A s \in Threads \ {h} :
            (TwoStepRace(h, s) /\ pc[h] = "drop_cas") => last # h)
    /\ \A h \in Threads :
          /\ RaceOfHolder(h) ~>
                (/\ pc[h] = "drop_hstore" /\ succ[h] \in Threads \ {h}
                 /\ prev[succ[h]] = h /\ pc[succ[h]] = "spin")
          /\ RaceOfHolder(h) ~> (pc[h] = "idle")
    /\ \A s \in Threads : RaceOfSuccessor(s) ~> (pc[s] = "held")

\* the holder is at its compare-and-swap with `next` still null and the
\* successor is between its swap and its store into `next`
C5_Witness ==
    \E h \in Threads : \E s \in Threads \ {h} :
        TwoStepRace(h, s) /\ pc[h] = "drop_cas" /\ next[h] = Null

\* C6: uncontended fast path: while no other locker has ever been locked,
\* every swap of thread t finds `last` null, t never reaches a spin loop
\* and every compare-and-swap of its drop() succeeds, in every round.
Solo(t) == \A u \in Nodes \ {t} : iter[u] = 0 /\ pc[u] = "idle"

C6_FastPath ==
    \A t \in Threads : Solo(t) =>
        /\ pc[t] \in {"idle", "swap", "held", "write", "drop_load", "drop_cas"}
        /\ pc[t] = "swap" => last = Null
        /\ pc[t] = "drop_load" => next[t] = Null
        /\ pc[t] = "drop_cas" => last = t

\* a lone thread is at the compare-and-swap of its last round
C6_Witness ==
    \E t \in Threads : Solo(t) /\ iter[t] = NumLoop /\ NumLoop >= 2 /\ pc[t] = "drop_cas"

\* C7: reentrant acquisition: once a thread holding a guard has called
\* lock() on a second locker, that call never returns, the first guard is
\* never dropped, and no acquisition queued behind the second locker ever
\* enters.
C7_ReentrantDeadlock ==
    (reent # Null) =>
        /\ pc[Extra] \in InLock \cup {"swap"}
        /\ pc[reent] = "held"
        /\ \A m \in Nodes : Before(Extra, m) => pc[m] \in InLock

\* the second locker spins behind its owner's guard and another thread
\* spins behind the second locker
C7_Witness ==
    /\ reent # Null /\ pc[Extra] = "spin"
    /\ \E m \in Threads : Before(Extra, m) /\ pc[m] = "spin"

\* C8: tail invariant: `last` is null iff no node holds or awaits the lock,
\* a node awaiting from its swap and holding until its drop() has won the
\* compare-and-swap or cleared its successor's `locked`.
C8_TailInvariant ==
    (last = Null) <=> (\A n \in Nodes : pc[n] \notin InLock \cup Holding \cup InDrop)

\* a node has handed the lock to its successor and no longer counts as
\* holding, while the tail still points to a queued node
C8_Witness ==
    \E n \in Threads : pc[n] = "drop_reset" /\ last # Null /\ last # n

\* C9 as stated: whenever the queue is not empty exactly one queued node
\* has locked = false, and it is the holder.
C9_HolderInvariant_Orig ==
    queue # <<>> =>
        /\ Cardinality({n \in Nodes : InQueue(n) /\ ~locked[n]}) = 1
        /\ ~locked[queue[1]]

\* C9 amended: the oldest queued node has locked = false; any other queued
\* node has locked = false exactly while it is between its swap and its
\* own store of true (line 48).
C9_HolderInvariant ==
    \A n \in Nodes : InQueue(n) =>
        (~locked[n] <=> (n = queue[1] \/ pc[n] = "store_locked"))

\* a holder, a waiter that has stored true and a newcomer that has not yet
C9_Witness ==
    /\ Len(queue) >= 3
    /\ pc[queue[1]] \in Holding
    /\ locked[queue[2]]
    /\ pc[queue[3]] = "store_locked" /\ ~locked[queue[3]]

\* C10: flag discipline: `locked` of n becomes true only by n's own store
\* of line 48, in a lock() whose swap returned a predecessor; it becomes
\* false only by the handoff store of the node immediately before n in
\* swap order; and those two stores go nowhere else.
C10_FlagDiscipline ==
    [][/\ \A n \in Nodes :
            /\ (~locked[n] /\ locked'[n]) =>
                  pc[n] = "store_locked" /\ pc'[n] = "store_next" /\ prev[n] # Null
            /\ (locked[n] /\ ~locked'[n]) =>
                  \E h \in Nodes \ {n} :
                      /\ pc[h] = "drop_hstore" /\ pc'[h] = "drop_reset"
                      /\ Before(h, n) /\ Pos(n) = Pos(h) + 1
       /\ \A h \in Nodes :
            (pc[h] = "drop_hstore" /\ pc'[h] = "drop_reset") =>
                /\ succ[h] \in Nodes \ {h}
                /\ Before(h, succ[h]) /\ Pos(succ[h]) = Pos(h) + 1
                /\ locked[succ[h]] /\ ~locked'[succ[h]]
       /\ \A n \in Nodes :
            (pc[n] = "store_locked" /\ pc'[n] = "store_next") =>
                prev[n] # Null /\ ~locked[n] /\ locked'[n]
      ]_vars

\* a releasing node is about to clear the flag its successor has set
C10_Witness ==
    \E h \in Threads : pc[h] = "drop_hstore" /\ succ[h] # Null /\ locked[succ[h]]

\* C11 as stated: `next` of a node is written only by its successor, the
\* node whose swap returned it as `prev`, never by the node's own thread.
C11_NextWriter_Orig ==
    [][\A n \in Nodes :
          next'[n] # next[n] =>
              \E m \in Nodes \ {n} :
                  pc[m] = "store_next" /\ pc'[m] = "spin" /\ prev[m] = n
      ]_vars

\* C11 amended: `next` of a node becomes non-null only by the store of its
\* successor (line 52), which stores the successor itself; the node's own
\* thread writes it only at line 89 of drop(), after the handoff, and
\* stores null; lock() never writes the own `next`.
C11_NextWriter ==
    [][/\ \A n \in Nodes :
            next'[n] # next[n] =>
                \/ \E m \in Nodes \ {n} :
                      /\ pc[m] = "store_next" /\ pc'[m] = "spin"
                      /\ prev[m] = n /\ next[n] = Null /\ next'[n] = m
                \/ /\ pc[n] = "drop_reset" /\ pc'[n] = "idle"
                   /\ next'[n] = Null
       /\ \A m \in Nodes :
            (pc[m] = "store_next" /\ pc'[m] = "spin") =>
                prev[m] \in Nodes \ {m} /\ next'[prev[m]] = m /\ next'[m] = next[m]
      ]_vars

\* a node that has handed off is about to reset its own `next`, which its
\* successor had set
C11_Witness ==
    \E n \in Threads : pc[n] = "drop_reset" /\ next[n] \in Threads \ {n}

\* C12: set-before-publish: a waiter stores locked = true (line 48) before
\* it stores itself into its predecessor's `next` (line 52).  So whenever
\* `next` of a node that has not yet handed off points to n, locked of n is
\* true; and while n has its store of true or its publish still ahead, its
\* predecessor has `next` null and has not handed off, so the predecessor's
\* store of false never precedes n's store of true.
C12_SetBeforePublish ==
    /\ \A m \in Nodes :
          (InQueue(m) /\ next[m] # Null) =>
              /\ locked[next[m]]
              /\ pc[next[m]] = "spin" /\ prev[next[m]] = m
    /\ \A n \in Nodes :
          pc[n] \in {"store_locked", "store_next"} =>
              /\ Before(prev[n], n)
              /\ next[prev[n]] = Null
              /\ pc[prev[n]] \notin {"drop_hload", "drop_hstore", "drop_reset"}
              /\ locked[n] <=> pc[n] = "store_next"

\* a waiter is published in its predecessor's `next` with its flag set,
\* while the predecessor is already waiting for it in drop()
C12_Witness ==
    \E m \in Threads : \E n \in Threads \ {m} :
        /\ pc[m] = "drop_hload" /\ next[m] = n
        /\ pc[n] = "spin" /\ locked[n]

\* C13: release by a successful compare-and-swap: on the step on which
\* drop() of n changes `last` from n to null and returns, `last` is null
\* afterwards, no node holds n as the `prev` its swap returned, no node is
\* inside lock() waiting, nothing is queued, and no `locked` flag is
\* written.
C13_CasSuccess ==
    [][\A n \in Nodes :
          (pc[n] = "drop_cas" /\ pc'[n] = "idle") =>
              /\ last = n /\ last' = Null
              /\ next[n] = Null
              /\ \A m \in Nodes : prev[m] # n /\ prev'[m] # n
              /\ \A m \in Nodes : pc[m] \notin InLock /\ pc'[m] \notin InLock
              /\ queue = <<n>> /\ queue' = <<>>
              /\ locked' = locked
      ]_vars

\* a node that has been handed the lock by its predecessor is alone in the
\* queue at its own compare-and-swap, while other threads are between calls
C13_Witness ==
    \E n \in Threads :
        /\ pc[n] = "drop_cas" /\ last = n /\ iter[n] = NumLoop
        /\ \E m \in Threads \ {n} : pc[m] = "drop_reset"

\* C14: release by a failed compare-and-swap: whenever drop() of n is past
\* a failed compare-and-swap (or past a load of a non-null `next`), exactly
\* one node s has completed a swap that returned n as `prev`; `last` was
\* not n; `next` of n is null or s; and s is the node the handoff store
\* goes to.
Successors(n) == {s \in Nodes \ {n} : prev[s] = n /\ pc[s] \in InLock}

C14_CasFailure ==
    [][\A n \in Nodes :
          /\ (pc[n] = "drop_cas" /\ pc'[n] = "drop_spin") =>
                /\ last # n
                /\ Cardinality(Successors(n)) = 1
          /\ (pc[n] \in {"drop_spin", "drop_hload", "drop_hstore"}) =>
                /\ Cardinality(Successors(n)) = 1
                /\ \A s \in Successors(n) :
                      /\ Before(n, s) /\ Pos(s) = Pos(n) + 1
                      /\ next[n] \in {Null, s}
                      /\ pc[n] = "drop_hstore" => succ[n] = s
                      /\ (pc[n] = "drop_hstore" /\ pc'[n] = "drop_reset")
                            => locked[s] /\ ~locked'[s]
      ]_vars

\* the compare-and-swap has failed and the successor has not yet published
C14_Witness ==
    \E n \in Threads : \E s \in Threads \ {n} :
        /\ pc[n] = "drop_spin" /\ next[n] = Null
        /\ prev[s] = n /\ pc[s] \in {"store_locked", "store_next"}

\* C15: per-acquisition state machine.  An acquisition starts at its swap
\* and either holds at once (the swap returned null) or waits (it returned
\* a predecessor); a waiting acquisition comes to hold only after its
\* predecessor's handoff, as the oldest queued node with its flag cleared;
\* a drop() returns either from the successful compare-and-swap, having
\* cleared `last` and written no flag, or after the handoff path, having
\* cleared the flag of exactly one successor and left `last` alone; and an
\* acquisition is released exactly once, by one of those two steps, before
\* its drop() returns.
NoDuplicates(q) == \A i \in 1..Len(q) : \A j \in 1..Len(q) : q[i] = q[j] => i = j

C15_StateMachine ==
    /\ [](/\ NoDuplicates(queue)
          /\ \A n \in Nodes :
                /\ (pc[n] \in InLock \cup Holding \cup InDrop) => InQueue(n)
                /\ (pc[n] \in {"idle", "swap", "drop_reset"}) => ~InQueue(n))
    /\ [][\A n \in Nodes :
            pc'[n] # pc[n] =>
                \* Created -> ImmediateHolder | Waiting
                /\ pc[n] = "swap" =>
                      IF last = Null THEN pc'[n] = "held" ELSE pc'[n] = "store_locked"
                \* -> Holder
                /\ pc'[n] = "held" =>
                      \/ pc[n] = "swap" /\ last = Null
                      \/ /\ pc[n] = "spin" /\ ~locked[n]
                         /\ queue[1] = n
                         /\ ~InQueue(prev[n]) \/ Before(n, prev[n])
                /\ pc[n] = "spin" => ~locked[n] /\ pc'[n] = "held"
                \* Holder -> Released: one of the two outcomes
                /\ pc'[n] \in {"idle", "drop_reset"} =>
                      \/ /\ pc[n] = "drop_cas" /\ pc'[n] = "idle"
                         /\ last = n /\ last' = Null /\ locked' = locked
                         /\ queue' = Remove(queue, n)
                      \/ /\ pc[n] = "drop_hstore" /\ pc'[n] = "drop_reset"
                         /\ last' = last /\ last # n
                         /\ Cardinality({m \in Nodes : locked'[m] # locked[m]}) = 1
                         /\ locked[succ[n]] /\ ~locked'[succ[n]]
                         /\ queue' = Remove(queue, n)
                      \/ /\ pc[n] = "drop_reset" /\ pc'[n] = "idle"
                         /\ queue' = queue /\ last' = last /\ locked' = locked
                \* nothing else releases
                /\ pc'[n] \notin {"idle", "drop_reset"} =>
                      queue' = IF pc[n] = "swap" THEN Append(queue, n) ELSE queue
      ]_vars

\* a waiting acquisition has been handed the lock, holds, and its
\* predecessor's drop() is on the handoff path, past its release
C15_Witness ==
    \E n \in Threads : \E m \in Threads \ {n} :
        /\ pc[n] = "held" /\ queue[1] = n /\ Len(queue) >= 2
        /\ pc[m] = "drop_reset" /\ next[m] = n

\* C16: fresh node at every acquisition: whenever a locker is between two
\* acquisitions or about to swap, in the first round and in every later
\* one, its `next` is null and its `locked` is false, as get_locker built
\* it.
C16_FreshNode ==
    \A n \in Nodes :
        pc[n] \in {"idle", "swap"} => next[n] = Null /\ ~locked[n]

\* a reused locker is about to swap again behind queued nodes; its last
\* drop() had a successor, so it took the handoff path
C16_Witness ==
    \E n \in Threads :
        /\ pc[n] = "swap" /\ iter[n] >= 2
        /\ Len(queue) >= 2
        /\ \E m \in Threads \ {n} : pc[m] = "spin" /\ locked[m]

\* C17 as stated: from the end of a node's drop() to its next swap, `last`
\* is not the node, no other node's `next` is the node, and no other thread
\* holds it as `prev` before its store of line 52 or as the successor read
\* at line 85 before its store of line 86.
C17_NoReference_Orig ==
    \A n \in Nodes :
        pc[n] \in {"idle", "swap"} =>
            /\ last # n
            /\ \A m \in Nodes \ {n} : next[m] # n
            /\ \A m \in Nodes \ {n} : prev[m] = n => pc[m] = "spin"
            /\ \A m \in Nodes \ {n} : succ[m] = n => pc[m] = "drop_reset"

\* C17 amended: as above, except that the predecessor that handed the
\* lock to the node may still have the node in its own `next` until its
\* store of null at line 89; that predecessor is past its last load of
\* `next` and its store into `locked`, so nothing reads or writes the
\* released node through it.
C17_NoReference ==
    \A n \in Nodes :
        pc[n] \in {"idle", "swap"} =>
            /\ last # n
            /\ \A m \in Nodes \ {n} : next[m] = n => pc[m] = "drop_reset"
            /\ \A m \in Nodes \ {n} : prev[m] = n => pc[m] = "spin"
            /\ \A m \in Nodes \ {n} : succ[m] = n => pc[m] = "drop_reset"

\* a node has finished its drop() while the predecessor that handed it the
\* lock has not yet reset its own `next`
C17_Witness ==
    \E n \in Threads : \E m \in Threads \ {n} :
        pc[n] \in {"idle", "swap"} /\ pc[m] = "drop_reset" /\ next[m] = n

\* C18: stall by a halted enqueuer: once a thread has halted between its
\* swap and its store into `next` of its predecessor h, h never gets past
\* the spin on `next` of its drop() (its `next` stays null, and once its
\* compare-and-swap has failed it stays in that spin on every step), h is
\* never released, and every node that swapped after the halted one stays
\* inside lock().
C18_HaltedEnqueuer ==
    /\ [](\A s \in Nodes :
            pc[s] = "halted" =>
                /\ prev[s] \in Nodes \ {s}
                /\ Before(prev[s], s)
                /\ next[prev[s]] = Null
                /\ last # prev[s]
                /\ pc[prev[s]] \in
                      InLock \cup Holding \cup {"drop_load", "drop_cas", "drop_spin"}
                /\ \A m \in Nodes : Before(s, m) => pc[m] \in InLock)
    /\ [][\A n \in Nodes :
            pc'[n] # pc[n] =>
                /\ pc[n] # "halted"
                \* neither spin loop has another exit
                /\ pc[n] = "spin" => ~locked[n]
                /\ pc[n] = "drop_spin" => next[n] # Null
                /\ \A s \in Nodes :
                      (pc[s] = "halted" /\ prev[s] = n) => pc[n] # "drop_spin"
      ]_vars

\* the enqueuer has halted, its predecessor spins on `next` in drop() and a
\* later thread spins in lock() behind the halted one
C18_Witness ==
    \E s \in Threads : \E m \in Threads \ {s} :
        /\ pc[s] = "halted" /\ pc[prev[s]] = "drop_spin"
        /\ Before(s, m) /\ pc[m] = "spin" /\ locked[m]

\* C19: queue shape: the nodes swapped into `last` and not yet released
\* form one chain in swap order: a non-null `last` is the node of the most
\* recent swap and its `next` is null; `next` of a queued node is null or
\* the node swapped immediately after it; `last` is null exactly when the
\* chain is empty; no node occurs twice and no node is its own successor.
\* A released node has a non-null `next` only between its handoff and its
\* reset of line 89.
C19_QueueShape ==
    /\ NoDuplicates(queue)
    /\ IF queue = <<>> THEN last = Null
       ELSE last = queue[Len(queue)] /\ next[last] = Null
    /\ \A i \in 1..Len(queue) :
          /\ next[queue[i]] # Null => (i < Len(queue) /\ next[queue[i]] = queue[i + 1])
          /\ i > 1 => pc[queue[i]] \in InLock /\ prev[queue[i]] = queue[i - 1]
    /\ \A n \in Nodes :
          /\ next[n] # n
          /\ (~InQueue(n) /\ next[n] # Null) => pc[n] = "drop_reset"

\* a chain of all the threads, fully linked
C19_Witness ==
    /\ Len(queue) = NumThreads
    /\ \A i \in 1..(NumThreads - 1) : next[queue[i]] = queue[i + 1]
    /\ last = queue[NumThreads]

\* C20: frame of acquire and release: `last` changes only by the swap of a
\* lock() and by a successful compare-and-swap of a drop(), so the handoff
\* leaves it unchanged; the protected value changes only by the write of a
\* thread that holds a guard, never by a step of lock() or drop(); and a
\* step of drop() changes the `locked` flag of no node but the immediate
\* successor of the releasing node.
C20_Frame ==
    [][/\ last' # last =>
            \/ \E n \in Nodes :
                  pc[n] = "swap" /\ pc'[n] \in {"held", "store_locked"} /\ last' = n
            \/ \E n \in Nodes :
                  pc[n] = "drop_cas" /\ pc'[n] = "idle" /\ last = n /\ last' = Null
       /\ data' # data =>
            \E n \in Nodes :
                /\ pc[n] = "write" /\ pc'[n] = "drop_load"
                /\ queue[1] = n
                /\ \A m \in Nodes \ {n} : pc[m] \notin Holding
       /\ \A n \in Nodes :
            /\ (pc[n] \in {"swap"} \cup InLock \cup InDrop \cup {"drop_reset"}
                   /\ pc'[n] # pc[n]) => data' = data
            /\ (pc[n] \in {"drop_spin", "drop_hload", "drop_hstore", "drop_reset"}
                   /\ pc'[n] # pc[n]) => last' = last
            /\ (pc[n] \in InDrop \cup {"drop_reset"} /\ pc'[n] # pc[n]) =>
                  \A m \in Nodes :
                      locked'[m] # locked[m] =>
                          /\ pc[n] = "drop_hstore"
                          /\ m # n /\ next[n] = m
                          /\ Before(n, m) /\ Pos(m) = Pos(n) + 1
      ]_vars

\* a handoff is about to happen while the tail is a third node
C20_Witness ==
    \E n \in Threads :
        /\ pc[n] = "drop_hstore" /\ locked[succ[n]]
        /\ last # succ[n] /\ last # n /\ data > 0

-----------------------------------------------------------------------------
TypeOK ==
    /\ last \in Nodes \cup {Null}
    /\ data \in Nat
    /\ next \in [Nodes -> Nodes \cup {Null}]
    /\ locked \in [Nodes -> BOOLEAN]
    /\ prev \in [Nodes -> Nodes \cup {Null}]
    /\ succ \in [Nodes -> Nodes \cup {Null}]
    /\ reent \in Threads \cup {Null}
====
